---- MODULE Spec2Model ----
(***************************************************************************)
(* Layout reconstruction of PanelReader: the Row Merger and the            *)
(* Reading-Order Sorter and Content Shrink-Wrapper of                      *)
(* YOLO/ordered_detection.py, and the Inclusion Expander of Magi/magi.py.  *)
(*                                                                         *)
(* A box is the sequence <<x1, y1, x2, y2>>, as the Python list            *)
(* [x1, y1, x2, y2].  Python list positions are 0-based; sequences here    *)
(* are 1-based, so Python index k is position k + 1.                       *)
(*                                                                         *)
(* Coordinates are integers.  The float comparisons of the source          *)
(* (y_overlap > min_height * 0.5, overlap_area / min_area > 0.3,           *)
(* y1 > y2 * 0.95) are modelled by the cross-multiplied integer            *)
(* comparisons, which agree with IEEE double arithmetic on integer         *)
(* coordinates of page size.                                               *)
(***************************************************************************)
EXTENDS Integers, Sequences, FiniteSets, TLC

VARIABLES
    \* ---- Row Merger (merge_overlapping_boxes) ----
    raw_boxes,      \* the caller's list passed to merge_overlapping_boxes
    boxes,          \* the local working copy (boxes = boxes.copy())
    merged,         \* the loop flag
    thr,            \* overlap_threshold, in units of 1/ThrDen
    mpc,            \* "idle" | "call" | "loop" | "done" | "error"
    nmerges,        \* history: merges performed in the current call
    ncall,          \* history: 1 for the first call, 2 for the call on its output
    in1,            \* history: the input of the first call
    out1            \* history: the value returned by the first call

mergeVars == <<raw_boxes, boxes, merged, thr, mpc, nmerges, ncall, in1, out1>>

VARIABLES
    \* ---- Reading-Order Sorter (xy_cut_sort) ----
    cleaned_boxes,    \* the caller's list object; xy_cut_sort's "boxes" is this object
    rtl,              \* the direction flag
    clusters,         \* rows closed so far
    current_cluster,  \* the row being filled
    si,               \* the loop index i of "for i in range(1, len(boxes))" (0-based)
    sorted_panels,    \* the value built and returned
    spc,              \* "idle" | "call" | "cluster" | "rows" | "done"
    passed_boxes      \* history: the caller's list as it was when passed

sortVars ==
    <<cleaned_boxes, rtl, clusters, current_cluster, si, sorted_panels, spc,
      passed_boxes>>

VARIABLES
    \* ---- Inclusion Expander (get_inclusive_panels) ----
    panels,         \* res.get('panels', [])
    texts,          \* res.get('texts', [])
    associations,   \* res.get('associations', []): pairs <<panel index, text index>>, 0-based
    p_idx,          \* the loop index of "for p_idx, panel_box in enumerate(panels)" (0-based)
    final_panels,   \* the list built and returned
    epc             \* "idle" | "loop" | "done"

expandVars == <<panels, texts, associations, p_idx, final_panels, epc>>

VARIABLES
    \* ---- Content Shrink-Wrapper (the loop of main) ----
    full_img_gray,  \* the grayscale image: [<<row, column>> -> intensity]
    box,            \* the box of the current iteration of "for box in ordered_boxes"
    out_box,        \* the box appended to final_output_boxes by that iteration
    kpc             \* "idle" | "loaded" (between iterations) | "appended" | "error"

shrinkVars == <<full_img_gray, box, out_box, kpc>>

vars == <<mergeVars, sortVars, expandVars, shrinkVars>>

\* What each component leaves alone.
notMergeVars == <<sortVars, expandVars, shrinkVars>>
notSortVars == <<mergeVars, expandVars, shrinkVars>>
notExpandVars == <<mergeVars, sortVars, shrinkVars>>
notShrinkVars == <<mergeVars, sortVars, expandVars>>

(***************************************************************************)
(* Bounds of the model.                                                    *)
(***************************************************************************)
MaxBoxes == 3

\* Coordinates of the merger's boxes; zero-width and zero-height boxes sit at
\* the middle coordinate.
MergeCoords == 0..2
MergeDegenerateAt == {1}

\* Coordinates of the sorter's boxes.
SortXs == 0..1
SortYs == 0..3
\* 2x2 grids: top edge of the top row, row heights, gap between the rows.
GridTops == {0, 20}
GridHeights == 1..2
GridGaps == 0..1

\* Inclusion Expander: at most MaxPanels panels, MaxTexts texts, and
\* association lists of the lengths AssocLens.
MaxPanels == 2
MaxTexts == 2
AssocLens == 0..2

\* Shrink-Wrapper: the image is ImgW pixels wide and ImgH pixels high.
ImgW == 3
ImgH == 2

Min(a, b) == IF a <= b THEN a ELSE b
Max(a, b) == IF a >= b THEN a ELSE b

\* Boxes with x1 <= x2 and y1 <= y2 (the data model's invariant); zero-width
\* and zero-height boxes included.
BoxesOver(Xs, Ys) ==
    {<<x1, y1, x2, y2>> : x1 \in Xs, y1 \in Ys, x2 \in Xs, y2 \in Ys}

ValidBox(b) == b[1] <= b[3] /\ b[2] <= b[4]
NonDegenerate(b) == b[1] < b[3] /\ b[2] < b[4]

SeqsUpTo(S, n) == UNION {[1..k -> S] : k \in 0..n}

(***************************************************************************)
(* Row Merger: merge_boxes and merge_overlapping_boxes.                    *)
(***************************************************************************)
\* overlap_threshold = ThrNum / ThrDen; the default and main()'s value is 0.3.
ThrDen == 10
DefaultThreshold == 3
\* Thresholds tried: 0.0, 0.3 and 0.5.
Thresholds == {0, DefaultThreshold, 5}

\* merge_boxes: the union bounding box.
merge_boxes(box1, box2) ==
    << Min(box1[1], box2[1]),
       Min(box1[2], box2[2]),
       Max(box1[3], box2[3]),
       Max(box1[4], box2[4]) >>

\* Variant of y_overlap with min and max exchanged (the extent of the union).
y_overlap_swapped(box1, box2) == Max(box1[4], box2[4]) - Min(box1[2], box2[2])

\* y_overlap = min(box1[3], box2[3]) - max(box1[1], box2[1])
y_overlap(box1, box2) == Min(box1[4], box2[4]) - Max(box1[2], box2[2])

min_height(box1, box2) == Min(box1[4] - box1[2], box2[4] - box2[2])

\* same_row = y_overlap > min_height * 0.5
same_row(box1, box2) == 2 * y_overlap(box1, box2) > min_height(box1, box2)

x_overlap(box1, box2) ==
    Max(0, Min(box1[3], box2[3]) - Max(box1[1], box2[1]))

overlap_area(box1, box2) == x_overlap(box1, box2) * y_overlap(box1, box2)

area(b) == (b[3] - b[1]) * (b[4] - b[2])

min_area(box1, box2) == Min(area(box1), area(box2))

\* overlap_ratio = overlap_area / min(area1, area2) raises ZeroDivisionError
\* when the smaller area is 0; the division is reached only when same_row.
DivisionByZero(box1, box2) == same_row(box1, box2) /\ min_area(box1, box2) = 0

\* overlap_ratio > overlap_threshold, for a non-zero divisor.
ratio_exceeds(box1, box2, t) ==
    overlap_area(box1, box2) * ThrDen > t * min_area(box1, box2)

\* The pair passes both tests (and the division is defined).
Mergeable(box1, box2, t) ==
    /\ same_row(box1, box2)
    /\ min_area(box1, box2) # 0
    /\ ratio_exceeds(box1, box2, t)

\* The pairs (i, j), i < j, at which one scan of the collection stops: the
\* division raises, or the pair is merged.
StopPairs(bs, t) ==
    {p \in (1..Len(bs)) \X (1..Len(bs)) :
        /\ p[1] < p[2]
        /\ \/ DivisionByZero(bs[p[1]], bs[p[2]])
           \/ Mergeable(bs[p[1]], bs[p[2]], t)}

\* Scan order of the nested while loops: i ascending, then j ascending.
PairBefore(p, q) == p[1] < q[1] \/ (p[1] = q[1] /\ p[2] < q[2])

FirstStop(bs, t) ==
    CHOOSE p \in StopPairs(bs, t) :
        \A q \in StopPairs(bs, t) : p = q \/ PairBefore(p, q)

\* boxes.pop(j)
Pop(bs, j) == [k \in 1..(Len(bs) - 1) |-> IF k < j THEN bs[k] ELSE bs[k + 1]]

\* boxes[i] = merge_boxes(box1, box2); boxes.pop(j)
AfterMerge(bs, i, j) == Pop([bs EXCEPT ![i] = merge_boxes(bs[i], bs[j])], j)

\* Variant in which a merge does not ask for another pass.
MergedAfterMergeNoRestart == FALSE

\* merged = True after a merge (the scan restarts from the beginning).
MergedAfterMerge == TRUE

\* Variant in which the flag is left set at the start of a pass.
MergedNotReset == TRUE

\* merged = False at the start of every pass.
MergedAtPassStart == FALSE

\* if len(boxes) <= 1: return boxes;  boxes = boxes.copy(); merged = True
MergeCall ==
    /\ mpc = "call"
    /\ IF Len(raw_boxes) <= 1
         THEN /\ boxes' = raw_boxes
              /\ mpc' = "done"
              /\ UNCHANGED merged
         ELSE /\ boxes' = raw_boxes
              /\ merged' = TRUE
              /\ mpc' = "loop"
    /\ UNCHANGED <<raw_boxes, thr, nmerges, ncall, in1, out1>>
    /\ UNCHANGED notMergeVars

\* One iteration of "while merged:": merged = False, then the scan over the
\* pairs up to the first merge (or the first failing division).
ScanPass ==
    /\ mpc = "loop"
    /\ merged
    /\ IF StopPairs(boxes, thr) = {}
         THEN /\ merged' = MergedAtPassStart
              /\ UNCHANGED <<boxes, mpc, nmerges>>
         ELSE \E p \in {FirstStop(boxes, thr)} :
              IF DivisionByZero(boxes[p[1]], boxes[p[2]])
                THEN /\ mpc' = "error"
                     /\ merged' = MergedAtPassStart
                     /\ UNCHANGED <<boxes, nmerges>>
                ELSE /\ boxes' = AfterMerge(boxes, p[1], p[2])
                     /\ merged' = MergedAfterMerge
                     /\ nmerges' = nmerges + 1
                     /\ UNCHANGED mpc
    /\ UNCHANGED <<raw_boxes, thr, ncall, in1, out1>>
    /\ UNCHANGED notMergeVars

\* "while merged" is false: return boxes
MergeReturn ==
    /\ mpc = "loop"
    /\ ~merged
    /\ mpc' = "done"
    /\ UNCHANGED <<raw_boxes, boxes, merged, thr, nmerges, ncall, in1, out1>>
    /\ UNCHANGED notMergeVars

\* The merger applied to its own result (same threshold).
MergeAgain ==
    /\ mpc = "done"
    /\ ncall = 1
    /\ in1' = raw_boxes
    /\ out1' = boxes
    /\ raw_boxes' = boxes
    /\ ncall' = 2
    /\ nmerges' = 0
    /\ mpc' = "call"
    /\ UNCHANGED <<boxes, merged, thr>>
    /\ UNCHANGED notMergeVars

ScenarioA == << <<0, 0, 10, 10>>, <<5, 5, 15, 15>> >>
ScenarioARev == << <<5, 5, 15, 15>>, <<0, 0, 10, 10>> >>

MergeBoxes ==
    {b \in BoxesOver(MergeCoords, MergeCoords) :
        \/ NonDegenerate(b)
        \/ /\ ValidBox(b)
           /\ b[1] = b[3] => b[1] \in MergeDegenerateAt
           /\ b[2] = b[4] => b[2] \in MergeDegenerateAt}

MergeInputs == SeqsUpTo(MergeBoxes, MaxBoxes) \cup {ScenarioA, ScenarioARev}

AllNonDegenerate(bs) == \A k \in 1..Len(bs) : NonDegenerate(bs[k])

IdleMerge ==
    /\ raw_boxes = <<>>
    /\ thr = DefaultThreshold
    /\ boxes = <<>>
    /\ merged = FALSE
    /\ mpc = "idle"
    /\ nmerges = 0
    /\ ncall = 1
    /\ in1 = <<>>
    /\ out1 = <<>>

\* The caller hands a detected box list and a threshold to the merger
\* (raw_boxes = results.boxes.xyxy...tolist(); merge_overlapping_boxes(...)).
MergeInput ==
    /\ mpc = "idle"
    /\ raw_boxes' \in MergeInputs
    /\ thr' \in Thresholds
    /\ mpc' = "call"
    /\ UNCHANGED <<boxes, merged, nmerges, ncall, in1, out1>>
    /\ UNCHANGED notMergeVars

\* The same, for collections of non-degenerate boxes.
NonDegenerateInputs == {bs \in MergeInputs : AllNonDegenerate(bs)}

MergeInputNonDegenerate ==
    /\ mpc = "idle"
    /\ raw_boxes' \in NonDegenerateInputs
    /\ thr' \in Thresholds
    /\ mpc' = "call"
    /\ UNCHANGED <<boxes, merged, nmerges, ncall, in1, out1>>
    /\ UNCHANGED notMergeVars

(***************************************************************************)
(* Reading-Order Sorter: xy_cut_sort.                                      *)
(***************************************************************************)
\* list.sort(key=..., reverse=...) is stable: position of element i is the
\* number of elements that sort before it.  key is the box component (1 for
\* x1, 2 for y1); with reverse=True larger keys come first and equal keys keep
\* their order.
KeyBefore(a, b, key, reverse) ==
    IF reverse THEN a[key] > b[key] ELSE a[key] < b[key]

SortRank(s, i, key, reverse) ==
    Cardinality({j \in 1..Len(s) :
        \/ KeyBefore(s[j], s[i], key, reverse)
        \/ (s[j][key] = s[i][key] /\ j < i)}) + 1

StableSort(s, key, reverse) ==
    [n \in 1..Len(s) |->
        s[CHOOSE i \in 1..Len(s) : SortRank(s, i, key, reverse) = n]]

\* boxes.sort(key=lambda b: b[1]) sorts the list object it is given, in place.
CallerListAfterSort(bs) == StableSort(bs, 2, FALSE)

\* Variant without the 0.95 tolerance.
StartsNewRowNoTolerance(b, cluster) == b[2] > cluster[Len(cluster)][4]

\* boxes[i][1] > current_cluster[-1][3] * 0.95
StartsNewRow(b, cluster) == 20 * b[2] > 19 * cluster[Len(cluster)][4]

\* cluster.sort(key=lambda b: b[0], reverse=rtl)
SortRow(cluster, reverse) == StableSort(cluster, 1, reverse)

RECURSIVE Flatten(_)
Flatten(rows) ==
    IF rows = <<>> THEN <<>> ELSE Head(rows) \o Flatten(Tail(rows))

IdleSort ==
    /\ cleaned_boxes = <<>>
    /\ rtl = FALSE
    /\ clusters = <<>>
    /\ current_cluster = <<>>
    /\ si = 0
    /\ sorted_panels = <<>>
    /\ spc = "idle"
    /\ passed_boxes = <<>>

\* Inputs of the sorter: short lists over small boxes (x2 = x1 + 1; only x1,
\* y1 and y2 are read), and 2x2 grids in every input order.
SortBoxes ==
    {<<x1, y1, x1 + 1, y2>> : x1 \in SortXs, y1 \in SortYs, y2 \in SortYs}

Grid(ty1, th, gap, bh) ==
    {<<0, ty1, 1, ty1 + th>>, <<1, ty1, 2, ty1 + th>>,
     <<0, ty1 + th + gap, 1, ty1 + th + gap + bh>>,
     <<1, ty1 + th + gap, 2, ty1 + th + gap + bh>>}

GridInputs ==
    UNION {{bs \in [1..4 -> Grid(ty1, th, gap, bh)] :
                \A a, b \in 1..4 : a # b => bs[a] # bs[b]} :
           ty1 \in GridTops, th \in GridHeights, gap \in GridGaps,
           bh \in GridHeights}

SortInputs ==
    SeqsUpTo({b \in SortBoxes : NonDegenerate(b)}, MaxBoxes) \cup GridInputs

\* The caller passes its list and the direction flag (xy_cut_sort(cleaned_boxes, rtl)).
SortInput ==
    /\ spc = "idle"
    /\ cleaned_boxes' \in SortInputs
    /\ passed_boxes' = cleaned_boxes'
    /\ rtl' \in BOOLEAN
    /\ spc' = "call"
    /\ UNCHANGED <<clusters, current_cluster, si, sorted_panels>>
    /\ UNCHANGED notSortVars

\* if len(boxes) <= 1: return boxes;  boxes.sort(...); clusters = [];
\* current_cluster = [boxes[0]]
SortCall ==
    /\ spc = "call"
    /\ IF Len(cleaned_boxes) <= 1
         THEN /\ sorted_panels' = cleaned_boxes
              /\ spc' = "done"
              /\ UNCHANGED <<cleaned_boxes, clusters, current_cluster, si>>
         ELSE /\ cleaned_boxes' = CallerListAfterSort(cleaned_boxes)
              /\ clusters' = <<>>
              /\ current_cluster' = <<cleaned_boxes'[1]>>
              /\ si' = 1
              /\ spc' = "cluster"
              /\ UNCHANGED sorted_panels
    /\ UNCHANGED <<rtl, passed_boxes>>
    /\ UNCHANGED notSortVars

\* One iteration of "for i in range(1, len(boxes))".
ClusterStep ==
    /\ spc = "cluster"
    /\ si < Len(cleaned_boxes)
    /\ IF StartsNewRow(cleaned_boxes[si + 1], current_cluster)
         THEN /\ clusters' = Append(clusters, current_cluster)
              /\ current_cluster' = <<cleaned_boxes[si + 1]>>
         ELSE /\ current_cluster' = Append(current_cluster, cleaned_boxes[si + 1])
              /\ UNCHANGED clusters
    /\ si' = si + 1
    /\ UNCHANGED <<cleaned_boxes, rtl, sorted_panels, spc, passed_boxes>>
    /\ UNCHANGED notSortVars

\* After the loop: clusters.append(current_cluster); sorted_panels = []
ClusterEnd ==
    /\ spc = "cluster"
    /\ si >= Len(cleaned_boxes)
    /\ clusters' = Append(clusters, current_cluster)
    /\ sorted_panels' = <<>>
    /\ spc' = "rows"
    /\ UNCHANGED <<cleaned_boxes, rtl, current_cluster, si, passed_boxes>>
    /\ UNCHANGED notSortVars

\* "for cluster in clusters": every row is sorted by x1 and appended;
\* return sorted_panels.
SortRows ==
    /\ spc = "rows"
    /\ clusters' = [r \in 1..Len(clusters) |-> SortRow(clusters[r], rtl)]
    /\ sorted_panels' = Flatten(clusters')
    /\ spc' = "done"
    /\ UNCHANGED <<cleaned_boxes, rtl, current_cluster, si, passed_boxes>>
    /\ UNCHANGED notSortVars

(***************************************************************************)
(* Inclusion Expander: boxes_overlap and get_inclusive_panels.             *)
(***************************************************************************)
OverlapThreshold == 5

boxes_overlap(box1, box2, threshold) ==
    ~ \/ box1[3] < box2[1] - threshold
      \/ box1[1] > box2[3] + threshold
      \/ box1[4] < box2[2] - threshold
      \/ box1[2] > box2[4] + threshold

\* associated_text_indices = [a[1] for a in associations if a[0] == p_idx]
associated_text_indices(p) ==
    {associations[k][2] : k \in {m \in 1..Len(associations) : associations[m][1] = p}}

\* Variant testing the overlap against the box expanded so far.
QualifiesAgainstExpanded(p, t, panel_box, expanded) ==
    \/ t \in associated_text_indices(p)
    \/ boxes_overlap(expanded, texts[t + 1], OverlapThreshold)

\* if t_idx in associated_text_indices or boxes_overlap(panel_box, text_box, threshold=5)
\* (the test reads panel_box, the panel as detected, not x1, y1, x2, y2).
Qualifies(p, t, panel_box, expanded) ==
    \/ t \in associated_text_indices(p)
    \/ boxes_overlap(panel_box, texts[t + 1], OverlapThreshold)

\* x1 = min(x1, text_box[0]); y1 = min(y1, text_box[1]); x2 = max(...); y2 = max(...)
Grow(expanded, text_box) ==
    << Min(expanded[1], text_box[1]),
       Min(expanded[2], text_box[2]),
       Max(expanded[3], text_box[3]),
       Max(expanded[4], text_box[4]) >>

\* "for t_idx, text_box in enumerate(texts)" from index t on, for panel p.
RECURSIVE ExpandFrom(_, _, _, _)
ExpandFrom(p, t, panel_box, expanded) ==
    IF t >= Len(texts)
      THEN expanded
      ELSE ExpandFrom(p, t + 1, panel_box,
                      IF Qualifies(p, t, panel_box, expanded)
                        THEN Grow(expanded, texts[t + 1])
                        ELSE expanded)

IdleExpand ==
    /\ panels = <<>>
    /\ texts = <<>>
    /\ associations = <<>>
    /\ p_idx = 0
    /\ final_panels = <<>>
    /\ epc = "idle"

\* Detected boxes: three panels; a text within 5 pixels of the first two
\* panels, a text 6 pixels right of the first panel, a text below the first
\* panel and above the third.
ExpandPanelBoxes == {<<0, 0, 10, 10>>, <<20, 0, 30, 10>>, <<0, 16, 10, 26>>}
ExpandTextBoxes == {<<12, 2, 15, 8>>, <<16, 2, 19, 8>>, <<2, 12, 8, 14>>}

\* Association pairs, in range and out of range: with n panels the panel
\* indices 0..n-1 are in range, and likewise for the texts.
AssocPairs == (0..MaxPanels) \X (0..MaxTexts)

\* Scenario B of the specification.
ScenarioBPanels == << <<0, 0, 100, 100>> >>
ScenarioBTexts == << <<90, 40, 120, 60>> >>

PanelInputs == SeqsUpTo(ExpandPanelBoxes, MaxPanels)
TextInputs == SeqsUpTo(ExpandTextBoxes, MaxTexts)
AssocInputs == UNION {[1..k -> AssocPairs] : k \in AssocLens}

\* results = model.predict_detections_and_associations(...); res = results[0]
ExpandInput ==
    /\ epc = "idle"
    /\ \/ /\ panels' \in PanelInputs
          /\ texts' \in TextInputs
          /\ associations' \in AssocInputs
       \/ /\ panels' = ScenarioBPanels
          /\ texts' = ScenarioBTexts
          /\ associations' = <<>>
    /\ final_panels' = <<>>
    /\ p_idx' = 0
    /\ epc' = "loop"
    /\ UNCHANGED notExpandVars

\* One iteration of "for p_idx, panel_box in enumerate(panels)", with its
\* loop over the texts; final_panels.append([int(x1), int(y1), int(x2), int(y2)])
\* (int() of an integer coordinate is that coordinate).
ExpandPanel ==
    /\ epc = "loop"
    /\ p_idx < Len(panels)
    /\ final_panels' =
          Append(final_panels,
                 ExpandFrom(p_idx, 0, panels[p_idx + 1], panels[p_idx + 1]))
    /\ p_idx' = p_idx + 1
    /\ UNCHANGED <<panels, texts, associations, epc>>
    /\ UNCHANGED notExpandVars

\* return final_panels
ExpandReturn ==
    /\ epc = "loop"
    /\ p_idx >= Len(panels)
    /\ epc' = "done"
    /\ UNCHANGED <<panels, texts, associations, p_idx, final_panels>>
    /\ UNCHANGED notExpandVars

(***************************************************************************)
(* Content Shrink-Wrapper: the shrink-wrap loop of main().                 *)
(***************************************************************************)
\* cv2.threshold(panel_roi, 245, 255, cv2.THRESH_BINARY_INV): a pixel is ink
\* (mask 255) when its intensity is <= 245, and 0 otherwise.
InkThreshold == 245
Intensities == {InkThreshold, InkThreshold + 1}

\* Variant with a strict comparison.
IsInkStrict(intensity) == intensity < InkThreshold

IsInk(intensity) == intensity <= InkThreshold

\* panel_roi = full_img_gray[y1:y2, x1:x2]: rows y1..y2-1, columns x1..x2-1,
\* addressed relative to the crop.
CropRows(b) == 0..(b[4] - b[2] - 1)
CropCols(b) == 0..(b[3] - b[1] - 1)

\* ink_coords = cv2.findNonZero(ink_mask): the <<column, row>> points of the
\* crop whose mask is not 0 (None when there is none).
ink_coords(img, b) ==
    {<<c, r>> \in CropCols(b) \X CropRows(b) : IsInk(img[<<b[2] + r, b[1] + c>>])}

MinOf(S) == CHOOSE v \in S : \A w \in S : v <= w
MaxOf(S) == CHOOSE v \in S : \A w \in S : v >= w

\* ix, iy, iw, ih = cv2.boundingRect(ink_coords)
boundingRect(pts) ==
    LET xs == {q[1] : q \in pts}
        ys == {q[2] : q \in pts}
    IN  <<MinOf(xs), MinOf(ys), MaxOf(xs) - MinOf(xs) + 1, MaxOf(ys) - MinOf(ys) + 1>>

\* [x1 + ix, y1 + iy, x1 + ix + iw, y1 + iy + ih], or the box itself
ShrinkWrapped(img, b) ==
    IF ink_coords(img, b) # {}
      THEN LET rect == boundingRect(ink_coords(img, b))
           IN  <<b[1] + rect[1], b[2] + rect[2],
                 b[1] + rect[1] + rect[3], b[2] + rect[2] + rect[4]>>
      ELSE b

IdleShrink ==
    /\ full_img_gray = <<>>
    /\ box = <<>>
    /\ out_box = <<>>
    /\ kpc = "idle"

Pixels == (0..(ImgH - 1)) \X (0..(ImgW - 1))

\* Integer boxes inside the image bounds, x1 <= x2 and y1 <= y2.
BoxesInImage ==
    {b \in BoxesOver(0..ImgW, 0..ImgH) :
        ValidBox(b) /\ b[3] <= ImgW /\ b[4] <= ImgH}

\* full_img = cv2.imread(img_path); full_img_gray = cv2.cvtColor(...)
ShrinkLoad ==
    /\ kpc = "idle"
    /\ full_img_gray' \in [Pixels -> Intensities]
    /\ kpc' = "loaded"
    /\ UNCHANGED <<box, out_box>>
    /\ UNCHANGED notShrinkVars

\* One iteration of "for box in ordered_boxes" on a box with a non-empty
\* crop.  ordered_boxes is any list of boxes; an iteration reads the image
\* and its own box only.
ShrinkBox ==
    /\ kpc = "loaded"
    /\ \E b \in BoxesInImage :
          /\ NonDegenerate(b)
          /\ box' = b
          /\ out_box' = ShrinkWrapped(full_img_gray, b)
    /\ kpc' = "appended"
    /\ UNCHANGED full_img_gray
    /\ UNCHANGED notShrinkVars

\* The same on a zero-width or zero-height box: the crop is an empty array.
\* What cv2.threshold and cv2.findNonZero do with an empty array is the
\* library's: the iteration either finds no ink and appends the box itself,
\* or raises, which main() reports before exiting.
ShrinkEmptyCrop ==
    /\ kpc = "loaded"
    /\ \E b \in BoxesInImage :
          /\ ~NonDegenerate(b)
          /\ box' = b
          /\ \/ out_box' = ShrinkWrapped(full_img_gray, b) /\ kpc' = "appended"
             \/ out_box' = <<>> /\ kpc' = "error"
    /\ UNCHANGED full_img_gray
    /\ UNCHANGED notShrinkVars

\* The loop goes on to the next element of ordered_boxes, which rebinds box.
ShrinkNext ==
    /\ kpc = "appended"
    /\ box' = <<>>
    /\ out_box' = <<>>
    /\ kpc' = "loaded"
    /\ UNCHANGED full_img_gray
    /\ UNCHANGED notShrinkVars

(***************************************************************************)
(* Specifications.                                                         *)
(***************************************************************************)
Init == IdleMerge /\ IdleSort /\ IdleExpand /\ IdleShrink

NextMerge ==
    \/ MergeInput
    \/ MergeCall
    \/ ScanPass
    \/ MergeReturn
    \/ MergeAgain

SpecMerge == Init /\ [][NextMerge]_vars

\* The merger on non-degenerate inputs.  The loop is sequential code that
\* always takes its next step.
MergeStep ==
    \/ MergeCall
    \/ ScanPass
    \/ MergeReturn
    \/ MergeAgain

NextMergeNonDegenerate ==
    \/ MergeInputNonDegenerate
    \/ MergeStep

FairSpecMerge ==
    Init /\ [][NextMergeNonDegenerate]_vars /\ WF_vars(MergeStep)

NextSort ==
    \/ SortInput
    \/ SortCall
    \/ ClusterStep
    \/ ClusterEnd
    \/ SortRows

SpecSort == Init /\ [][NextSort]_vars

NextExpand ==
    \/ ExpandInput
    \/ ExpandPanel
    \/ ExpandReturn

SpecExpand == Init /\ [][NextExpand]_vars

NextShrink ==
    \/ ShrinkLoad
    \/ ShrinkBox
    \/ ShrinkEmptyCrop
    \/ ShrinkNext

SpecShrink == Init /\ [][NextShrink]_vars

(***************************************************************************)
(* Claims.                                                                 *)
(***************************************************************************)
\* Some pair i < j of bs passes the same-row test and the overlap-ratio test.
HasMergeablePair(bs, t) ==
    \E i \in 1..Len(bs) : \E j \in (i + 1)..Len(bs) : Mergeable(bs[i], bs[j], t)

IsScenarioA == thr = DefaultThreshold /\ raw_boxes \in {ScenarioA, ScenarioARev}

\* C1 (as stated): Scenario A, boxes [0,0,10,10] and [5,5,15,15] in either
\* order with overlap_threshold 0.3, returns the single box [0,0,15,15].
C1_ScenarioA_Merges ==
    (mpc = "done" /\ ncall = 1 /\ IsScenarioA) => boxes = << <<0, 0, 15, 15>> >>

\* C1 (amended): on Scenario A the merger performs no merge and returns the
\* two boxes unchanged, in input order (vertical overlap 5 is not more than
\* half the height 10, and the overlap ratio 25/100 is not above 0.3).
C1_ScenarioA_Unchanged ==
    (mpc = "done" /\ ncall = 1 /\ IsScenarioA) => (boxes = raw_boxes /\ nmerges = 0)

C1_Witness == mpc = "done" /\ ncall = 1 /\ IsScenarioA /\ Len(boxes) = 2

\* C2: for boxes with x1 <= x2 and y1 <= y2, zero-area boxes included, the
\* merger never ends in a division-by-zero error.
C2_NoDivisionError == mpc # "error"

\* C4: for non-degenerate inputs the result holds no pair i < j passing both
\* the same-row and the overlap-ratio test, and the merger applied to its own
\* result returns that result.
C4_Idempotent ==
    (mpc = "done" /\ AllNonDegenerate(raw_boxes)) =>
        /\ ~HasMergeablePair(boxes, thr)
        /\ ncall = 2 => boxes = out1

C4_Witness ==
    /\ mpc = "done"
    /\ ncall = 2
    /\ AllNonDegenerate(in1)
    /\ Len(in1) = 3
    /\ Len(out1) = 2
    /\ boxes = out1

\* C9: for non-degenerate inputs the loop terminates; every merge shortens
\* the collection by exactly one; the result has as many boxes as the input
\* minus the merges performed, at most as many as the input, and at least
\* one when the input is not empty.
C9_TerminatesAndCounts ==
    /\ (mpc = "call" /\ AllNonDegenerate(raw_boxes)) ~> (mpc = "done")
    /\ [][nmerges' = nmerges + 1 => Len(boxes') = Len(boxes) - 1]_vars
    /\ []((mpc = "done" /\ AllNonDegenerate(raw_boxes)) =>
            /\ Len(boxes) = Len(raw_boxes) - nmerges
            /\ Len(boxes) <= Len(raw_boxes)
            /\ Len(raw_boxes) >= 1 => Len(boxes) >= 1)

C9_Witness ==
    /\ mpc = "done"
    /\ ncall = 1
    /\ AllNonDegenerate(raw_boxes)
    /\ Len(raw_boxes) = 3
    /\ nmerges = 2
    /\ Len(boxes) = 1

\* Reference row clusterings of a y1-sorted list, written from the claim:
\* a row is closed when the next box's y1 exceeds 0.95 times the row's bottom,
\* the bottom being the largest y2 in the row (runningMax) or the y2 of the
\* box added last.
RowBottom(row, runningMax) ==
    IF runningMax
      THEN CHOOSE v \in {row[k][4] : k \in 1..Len(row)} :
               \A k \in 1..Len(row) : row[k][4] <= v
      ELSE row[Len(row)][4]

RECURSIVE RowsFrom(_, _, _, _)
RowsFrom(bs, k, rows, runningMax) ==
    IF k > Len(bs)
      THEN rows
      ELSE IF 100 * bs[k][2] > 95 * RowBottom(rows[Len(rows)], runningMax)
             THEN RowsFrom(bs, k + 1, Append(rows, <<bs[k]>>), runningMax)
             ELSE RowsFrom(bs, k + 1,
                           [rows EXCEPT ![Len(rows)] = Append(@, bs[k])],
                           runningMax)

ReferenceRows(bs, runningMax) ==
    IF bs = <<>> THEN <<>> ELSE RowsFrom(bs, 2, << <<bs[1]>> >>, runningMax)

SortedByY1(bs) == \A k \in 1..(Len(bs) - 1) : bs[k][2] <= bs[k + 1][2]

\* C6 (as stated): the rows formed are those of the running-maximum
\* clustering: a new row starts exactly when the next box's y1 exceeds 0.95
\* times the largest y2 among the boxes already in the current row.
C6_RowsByRunningMax ==
    spc = "rows" =>
        /\ SortedByY1(cleaned_boxes)
        /\ clusters = ReferenceRows(cleaned_boxes, TRUE)

\* C6 (amended): a new row starts exactly when the next box's y1 exceeds 0.95
\* times the y2 of the box most recently added to the current row.
C6_RowsByLastBottom ==
    spc = "rows" =>
        /\ SortedByY1(cleaned_boxes)
        /\ clusters = ReferenceRows(cleaned_boxes, FALSE)

C6_Witness ==
    /\ spc = "rows"
    /\ Len(cleaned_boxes) = 3
    /\ Len(clusters) = 2
    /\ clusters = ReferenceRows(cleaned_boxes, FALSE)
    /\ clusters # ReferenceRows(cleaned_boxes, TRUE)

\* bs[a], bs[b] are the top-left and top-right, bs[c], bs[d] the bottom-left
\* and bottom-right box of a 2x2 grid.
IsGrid(bs, a, b, c, d) ==
    /\ Cardinality({a, b, c, d}) = 4
    /\ \A k \in {a, b, c, d} :
          NonDegenerate(bs[k]) /\ bs[k][1] >= 0 /\ bs[k][2] >= 0
    /\ bs[a][2] = bs[b][2] /\ bs[a][4] = bs[b][4]
    /\ bs[c][2] = bs[d][2] /\ bs[c][4] = bs[d][4]
    /\ bs[c][2] >= bs[a][4]
    /\ bs[a][1] < bs[b][1]
    /\ bs[c][1] < bs[d][1]

\* C8: a 2x2 grid given in any order is returned as top-left, top-right,
\* bottom-left, bottom-right when rtl is false, and as top-right, top-left,
\* bottom-right, bottom-left when rtl is true.
C8_GridReadingOrder ==
    (spc = "done" /\ Len(passed_boxes) = 4) =>
        \A a, b, c, d \in 1..4 :
            IsGrid(passed_boxes, a, b, c, d) =>
                sorted_panels =
                    IF rtl
                      THEN <<passed_boxes[b], passed_boxes[a],
                             passed_boxes[d], passed_boxes[c]>>
                      ELSE <<passed_boxes[a], passed_boxes[b],
                             passed_boxes[c], passed_boxes[d]>>

\* C10: after a call on two or more boxes the caller's list holds the same
\* boxes in the same order as before the call.
C10_CallerListUnchanged ==
    (spc = "done" /\ Len(passed_boxes) >= 2) => cleaned_boxes = passed_boxes

(***************************************************************************)
(* Claims about the Inclusion Expander.                                    *)
(***************************************************************************)
\* An association pair names a panel and a text that exist.
InRange(a) ==
    /\ 0 <= a[1] /\ a[1] < Len(panels)
    /\ 0 <= a[2] /\ a[2] < Len(texts)

AllInRange == \A k \in 1..Len(associations) : InRange(associations[k])

\* C3: when associations holds a pair whose panel index or text index is out
\* of range, get_inclusive_panels fails instead of ignoring the pair: it
\* never returns normally on such an input.
C3_OutOfRangeFails == (epc = "done") => AllInRange

\* The distance between two boxes along each axis (negative when their
\* projections intersect).
GapX(a, b) == Max(a[1], b[1]) - Min(a[3], b[3])
GapY(a, b) == Max(a[2], b[2]) - Min(a[4], b[4])

\* Text t belongs to panel i (both 1-based here): it is associated with it,
\* or it is not separated from the panel as detected by more than 5 pixels
\* along either axis.
BelongsTo(i, t) ==
    \/ \E k \in 1..Len(associations) : associations[k] = <<i - 1, t - 1>>
    \/ /\ GapX(panels[i], texts[t]) <= 5
       /\ GapY(panels[i], texts[t]) <= 5

\* The smallest box containing panel i and every text that belongs to it.
UnionBox(i) ==
    LET own == {panels[i]} \cup {texts[t] : t \in {u \in 1..Len(texts) : BelongsTo(i, u)}}
    IN  << MinOf({b[1] : b \in own}), MinOf({b[2] : b \in own}),
           MaxOf({b[3] : b \in own}), MaxOf({b[4] : b \in own}) >>

Contains(outer, inner) ==
    /\ outer[1] <= inner[1] /\ outer[2] <= inner[2]
    /\ outer[3] >= inner[3] /\ outer[4] >= inner[4]

\* C5: for in-range associations, the box returned for panel i is the union
\* bounding box of the panel and exactly the texts associated with it or
\* overlapping the panel as detected within 5 pixels; so it contains every
\* associated text, and it is the panel itself when no text qualifies.
C5_UnionOfQualifying ==
    (epc = "done" /\ AllInRange) =>
        /\ Len(final_panels) = Len(panels)
        /\ \A i \in 1..Len(panels) :
              /\ final_panels[i] = UnionBox(i)
              /\ \A k \in 1..Len(associations) :
                    associations[k][1] = i - 1 =>
                        Contains(final_panels[i], texts[associations[k][2] + 1])
              /\ (\A t \in 1..Len(texts) : ~BelongsTo(i, t)) =>
                    final_panels[i] = panels[i]

\* A finished call in which one panel grew by an associated text that does
\* not overlap it, left out a text that is within 5 pixels of the grown box
\* only, and another panel came back unchanged.
C5_Witness ==
    /\ epc = "done"
    /\ AllInRange
    /\ Len(panels) = 2
    /\ Len(texts) = 2
    /\ Len(associations) >= 1
    /\ \E i \in 1..2, t \in 1..2 :
          /\ BelongsTo(i, t)
          /\ GapX(panels[i], texts[t]) > 5
          /\ final_panels[i] # panels[i]
    /\ \E i \in 1..2, t \in 1..2 :
          /\ ~BelongsTo(i, t)
          /\ GapX(final_panels[i], texts[t]) <= 5
          /\ GapY(final_panels[i], texts[t]) <= 5
    /\ \E i \in 1..2 : final_panels[i] = panels[i]

(***************************************************************************)
(* Claims about the Content Shrink-Wrapper.                                *)
(***************************************************************************)
\* The pixels of the image inside box b whose intensity is at most 245, as
\* <<column, row>> in image coordinates.
InkIn(b) ==
    {q \in (0..(ImgW - 1)) \X (0..(ImgH - 1)) :
        /\ b[1] <= q[1] /\ q[1] < b[3]
        /\ b[2] <= q[2] /\ q[2] < b[4]
        /\ full_img_gray[<<q[2], q[1]>>] <= 245}

\* C7: for an integer box inside the image with x1 <= x2 and y1 <= y2, the
\* output box lies inside the input box and is well-formed; it is the input
\* box when the crop holds no pixel of intensity <= 245, and otherwise the
\* bounding rectangle of those pixels.
C7_ShrinkContained ==
    (kpc = "appended") =>
        /\ box[1] <= out_box[1] /\ out_box[1] <= out_box[3] /\ out_box[3] <= box[3]
        /\ box[2] <= out_box[2] /\ out_box[2] <= out_box[4] /\ out_box[4] <= box[4]
        /\ InkIn(box) = {} => out_box = box
        /\ InkIn(box) # {} =>
              out_box = << MinOf({q[1] : q \in InkIn(box)}),
                           MinOf({q[2] : q \in InkIn(box)}),
                           MaxOf({q[1] : q \in InkIn(box)}) + 1,
                           MaxOf({q[2] : q \in InkIn(box)}) + 1 >>

\* An iteration whose crop holds ink and white margins on both axes, so that
\* the output is strictly smaller than the input on every side it can be.
C7_Witness ==
    /\ kpc = "appended"
    /\ InkIn(box) # {}
    /\ out_box # box
    /\ out_box[1] > box[1]
    /\ out_box[3] < box[3]
    /\ out_box[4] < box[4]

====
